---- MODULE Spec2Model ----
(***************************************************************************)
(* State-machine model of the retrieval-augmented chat service:            *)
(*   document_service.py  DocumentService (ingestion into the vector index)*)
(*   chat_service.py      ChatService (sessions, streamed messages)        *)
(*                                                                         *)
(* All HTTP handlers are `async def` without an await in their body, so    *)
(* each of them runs atomically on the single event loop.  The streamed    *)
(* answer is produced by an async generator that drives the synchronous    *)
(* rag_chain.stream(...) iterator: between two `yield`s the event loop is  *)
(* held by that request (variable loop), and other work interleaves only   *)
(* while a generator is suspended at a yield.                              *)
(*                                                                         *)
(* Library behaviour the handlers rely on:                                 *)
(*  - uuid.uuid4() returns an identifier that was not returned before;     *)
(*  - RunnableWithMessageHistory loads the session history through         *)
(*    get_session_history when the invocation starts, and adds the input   *)
(*    message and the aggregated output message to that history when the   *)
(*    invocation ends without an exception (nothing is added otherwise);   *)
(*  - the retriever returns the k nearest chunks among those whose         *)
(*    metadata passes the filter (which ones is decided by the embedding); *)
(*  - Chroma's add_documents upserts by id.                                *)
(* Strings that are formatted, split or encoded are sequences of           *)
(* characters (paths: sequences of path tokens).                           *)
(***************************************************************************)
EXTENDS Integers, Sequences, FiniteSets, TLC

\* ------------------------------------------------------------- bounds
MaxIngest == 2
MaxStarts == 2
MaxPosts == 2
MaxIncr == 3
MaxPages == 1

\* -------------------------------------------------- program constants
K == 2
ChunkSize == 1000
ChunkOverlap == 200
StatusOk == 200
StatusBadRequest == 400
StatusServerError == 500

VARIABLES used, index, store, req, loop, last, issued, ingested, posts, ingests

vars == <<used, index, store, req, loop, last, issued, ingested, posts, ingests>>

\* ------------------------------------------------------------ helpers
RECURSIVE Flatten(_)
Flatten(ss) == IF ss = <<>> THEN <<>> ELSE Head(ss) \o Flatten(Tail(ss))

RECURSIVE Sum(_)
Sum(ns) == IF ns = <<>> THEN 0 ELSE Head(ns) + Sum(Tail(ns))

Min(a, b) == IF a < b THEN a ELSE b

\* The values uuid.uuid4() can return, and the strings a client can send.
UUIDs == {"u" \o ToString(i) : i \in 1..(MaxIngest + MaxStarts)}

\* str(uuid.uuid4()): an identifier that was not generated before (the
\* identifiers are taken in a fixed order).
Uuid4(generated) == "u" \o ToString(Cardinality(generated) + 1)
ClientIds == UUIDs \cup {"bogus"}
\* The chat ids a client sends when nothing is ingested: those start_chat can
\* return, and another string.
ChatIds == {"u" \o ToString(i) : i \in 1..MaxStarts} \cup {"bogus"}
Req == 1..MaxPosts
Messages == {<<"q">>, <<"w">>}

\* ---------------------------------------------------- os.path.splitext
RFind(p, t) ==
    LET hits == {i \in 1..Len(p) : p[i] = t}
    IN  IF hits = {} THEN 0 ELSE CHOOSE i \in hits : \A j \in hits : j <= i

SplitExt(p) ==
    LET sepIndex == RFind(p, "/")
        dotIndex == RFind(p, ".")
    IN  IF /\ dotIndex > sepIndex
           /\ \E f \in (sepIndex + 1)..(dotIndex - 1) : p[f] # "."
        THEN SubSeq(p, dotIndex, Len(p))
        ELSE <<>>

\* Variant of LoaderFor: any other extension is read as text.
LoaderForDefaultText(ext) ==
    IF ext = <<".", "pdf">> THEN "PyPDFLoader"
    ELSE IF ext \in {<<".", "doc">>, <<".", "docx">>} THEN "Docx2txtLoader"
    ELSE "TextLoader"

\* _process_file's dispatch on the extension: the loader, or none.
LoaderFor(ext) ==
    IF ext = <<".", "txt">> THEN "TextLoader"
    ELSE IF ext = <<".", "pdf">> THEN "PyPDFLoader"
    ELSE IF ext \in {<<".", "doc">>, <<".", "docx">>} THEN "Docx2txtLoader"
    ELSE "none"

\* ------------------------------------------ RecursiveCharacterTextSplitter
\* Number of chunks of one loaded page of len characters (text without
\* separators): windows of ChunkSize characters that advance by
\* ChunkSize - ChunkOverlap.
NumChunks(len) ==
    IF len = 0 THEN 0
    ELSE IF len <= ChunkSize THEN 1
    ELSE LET stride == ChunkSize - ChunkOverlap
         IN  1 + ((len - ChunkSize) + stride - 1) \div stride

SplitDocuments(pages) == Sum([i \in 1..Len(pages) |-> NumChunks(pages[i])])

\* Variant of ChunkId: the ordinal alone.
ChunkIdOrdinalOnly(asset_id, i) == "chunk_" \o ToString(i)

\* ids=[f"{asset_id}_{i}" for i in range(len(texts))]
ChunkId(asset_id, i) == asset_id \o "_" \o ToString(i)

ChunkIds(asset_id, n) == [i \in 1..n |-> ChunkId(asset_id, i - 1)]

\* metadata = {"asset": asset_id, "source": file_input.file_path}
Metadata(asset_id, file_path) == [asset |-> asset_id, source |-> file_path]

\* vector_store.add_documents(documents=chunks, ids=uuids): upsert the first
\* k of the chunks.
Upsert(idx, ids, meta, k) ==
    LET new == {ids[i] : i \in 1..k}
    IN  [id \in DOMAIN idx \cup new |-> IF id \in new THEN meta ELSE idx[id]]

\* ---------------------------------------------------------- retriever
\* as_retriever(search_kwargs={"k": 2, "filter": {"asset": {"$in": [asset_id]}}})
Retriever(asset_id) == [k |-> K, filter |-> {asset_id}]

\* Variant of Matching: the filter is not applied.
MatchingAll(idx, retriever) == DOMAIN idx

Matching(idx, retriever) == {id \in DOMAIN idx : idx[id].asset \in retriever.filter}

\* The results a similarity search can return: k of the matching chunks, or
\* all of them when there are fewer.
SearchResults(idx, retriever) ==
    LET m == Matching(idx, retriever)
    IN  {d \in SUBSET m : Cardinality(d) = Min(retriever.k, Cardinality(m))}

\* ------------------------------------------------------------ history
HumanMessage(content) == [type |-> "human", content |-> content]
AIMessage(content) == [type |-> "ai", content |-> content]

\* get_session_history: the store after the lookup (lazy creation of a
\* history-only entry) and the history it returns.
GetSessionHistoryStore(st, session_id) ==
    IF session_id \notin DOMAIN st
    THEN [c \in DOMAIN st \cup {session_id} |->
            IF c = session_id THEN [history |-> <<>>] ELSE st[c]]
    ELSE st

GetSessionHistory(st, session_id) == GetSessionHistoryStore(st, session_id)[session_id].history

\* Variant of ExitHistory: the answer is recorded before the question.
ExitHistoryAnswerFirst(hist, input, answer) ==
    hist \o <<[type |-> "ai", content |-> answer], [type |-> "human", content |-> input]>>

\* RunnableWithMessageHistory at the end of an invocation: the input message
\* (input_messages_key) and the output message (output_messages_key) are
\* added to the session's history.
ExitHistory(hist, input, answer) == hist \o <<HumanMessage(input), AIMessage(answer)>>

\* Variant of ErrorHistory: the question is recorded although the run failed.
ErrorHistoryHuman(hist, input) == hist \o <<[type |-> "human", content |-> input]>>

\* RunnableWithMessageHistory when the invocation raises: the end-of-run
\* listener does not run, the history stays as it was.
ErrorHistory(hist, input) == hist

\* Variant of WithHistory: one history object shared by every session.
WithHistoryAll(st, session_id, hist) ==
    [c \in DOMAIN st |-> [st[c] EXCEPT !.history = hist]]

\* The store with the history of session_id replaced.
WithHistory(st, session_id, hist) ==
    [c \in DOMAIN st |-> IF c = session_id THEN [st[c] EXCEPT !.history = hist] ELSE st[c]]

\* str(msg) of chat_history
Render(msg) == <<"content=">> \o msg.content \o <<" type=", msg.type>>

\* --------------------------------------------------------- streaming
\* The increments rag_chain.stream yields: one without an answer field (the
\* retrieved context), then partial answers, possibly empty.
Pieces == {<<>>, <<"a", "e_acute">>}
ContextChunk(docs) == [context |-> docs]
AnswerChunk(s) == [answer |-> s]

\* Variant of HasAnswer: `if 'answer' in chunk`.
HasAnswerKey(chunk) == "answer" \in DOMAIN chunk

\* if chunk.get('answer'):
HasAnswer(chunk) == "answer" \in DOMAIN chunk /\ chunk.answer # <<>>

\* str.encode('utf-8')
CodePoint(ch) == IF ch = "e_acute" THEN 233 ELSE 97
Utf8(ch) ==
    LET cp == CodePoint(ch)
    IN  IF cp < 128 THEN <<cp>> ELSE <<192 + (cp \div 64), 128 + (cp % 64)>>
Encode(s) == Flatten([i \in 1..Len(s) |-> Utf8(s[i])])

\* What one increment makes stream_generator yield.
Yielded(chunk) == IF HasAnswer(chunk) THEN <<Encode(chunk.answer)>> ELSE <<>>

\* ----------------------------------------------------------- responses
NoPath == <<>>
Response(op, status, detail, chat_id, asset_id, path, body) ==
    [op |-> op, status |-> status, detail |-> detail, chat_id |-> chat_id,
     asset_id |-> asset_id, path |-> path, body |-> body]

IdleReq == [pc |-> "idle", chat_id |-> "", message |-> <<>>, ctx |-> <<>>,
            docs |-> {}, n |-> 0, answer |-> <<>>, frags |-> <<>>]

\* --------------------------------------------------------------- Init
Init ==
    /\ used = {}
    /\ index = [id \in {} |-> Metadata("", NoPath)]
    /\ store = [c \in {} |-> [history |-> <<>>]]
    /\ req = [r \in Req |-> IdleReq]
    /\ loop = 0
    /\ last = Response("none", StatusOk, "", "", "", NoPath, <<>>)
    /\ issued = {}
    /\ ingested = [a \in {} |-> [n |-> 0, text |-> 0]]
    /\ posts = 0
    /\ ingests = 0


\* ------------------------------------------------------------ inputs
\* File paths a client can send, as sequences of path tokens.
Paths ==
    { <<"a", ".", "txt">>, <<"a", ".", "pdf">>, <<"a", ".", "doc">>,
      <<"a", ".", "docx">>, <<"a", ".", "csv">>, <<"a", ".", "TXT">>,
      <<".", "txt">>, <<"a">>, <<"d", ".", "pdf", "/", "a">>,
      <<"a", ".", "txt", ".", "csv">> }

\* What a loader can return: the character count of each loaded page.
PageLens == {0, 1, 2 * ChunkSize}
Docs == UNION {[1..n -> PageLens] : n \in 1..MaxPages}
MaxChunksOfDoc == MaxPages * NumChunks(2 * ChunkSize)

\* ------------------------------------------- DocumentService handlers
\* POST /api/documents/process.  load_ok, pages, write_ok and written are the
\* outcome of the loader and of the index write (a failed write leaves the
\* first `written` chunks in the index).
ProcessDocument(asset_id, file_path, load_ok, pages, write_ok, written) ==
    LET loader == LoaderFor(SplitExt(file_path))
        n == SplitDocuments(pages)
        ids == ChunkIds(asset_id, n)
        meta == Metadata(asset_id, file_path)
        failure(detail) ==
            Response("process", StatusBadRequest, detail, "", "", file_path, <<>>)
    IN  /\ loop = 0
        /\ ingests < MaxIngest
        /\ ingests' = ingests + 1
        /\ asset_id = Uuid4(used)
        /\ used' = used \cup {asset_id}
        /\ IF loader = "none"
           THEN /\ last' = failure("Unsupported file type")
                /\ UNCHANGED <<index, ingested>>
           ELSE IF ~load_ok
           THEN /\ last' = failure("loader error")
                /\ UNCHANGED <<index, ingested>>
           ELSE IF ~write_ok
           THEN /\ index' = Upsert(index, ids, meta, Min(written, n))
                /\ last' = failure("index error")
                /\ UNCHANGED ingested
           ELSE /\ index' = Upsert(index, ids, meta, n)
                /\ last' = Response("process", StatusOk, "", "", asset_id, file_path, <<>>)
                /\ ingested' = [a \in DOMAIN ingested \cup {asset_id} |->
                                   IF a = asset_id
                                   THEN [n |-> n, text |-> Sum(pages)]
                                   ELSE ingested[a]]
        /\ UNCHANGED <<store, req, loop, issued, posts>>

\* ----------------------------------------------- ChatService handlers
\* Variant of NewSession: the record get_session_history would create, a
\* history and nothing else.
NewSessionHistoryOnly(asset_id) == [history |-> <<>>]

NewSession(asset_id) ==
    [asset_id |-> asset_id, history |-> <<>>, rag_chain |-> Retriever(asset_id)]

\* Variant of StoreSession: the store is replaced by the new session alone.
StoreSessionOnly(st, chat_id, asset_id) == [c \in {chat_id} |-> NewSession(asset_id)]

\* self.store[chat_id] = {...}
StoreSession(st, chat_id, asset_id) ==
    [c \in DOMAIN st \cup {chat_id} |-> IF c = chat_id THEN NewSession(asset_id) ELSE st[c]]

\* `chat_id not in self.store` is false
Known(st, chat_id) == chat_id \in DOMAIN st

\* POST /api/chat/start.  setup_ok: setup_rag_chain returns without raising.
StartChat(chat_id, asset_id, setup_ok) ==
    /\ loop = 0
    /\ Cardinality(used) - ingests < MaxStarts
    /\ chat_id = Uuid4(used)
    /\ used' = used \cup {chat_id}
    /\ IF setup_ok
       THEN /\ store' = StoreSession(store, chat_id, asset_id)
            /\ last' = Response("start", StatusOk, "", chat_id, asset_id, NoPath, <<>>)
            /\ issued' = issued \cup {chat_id}
       ELSE /\ last' = Response("start", StatusServerError, "Failed to start chat", "",
                                asset_id, NoPath, <<>>)
            /\ UNCHANGED <<store, issued>>
    /\ UNCHANGED <<index, req, loop, ingested, posts, ingests>>

\* POST /api/chat/message, up to the return of the StreamingResponse; req[r]
\* then holds the response's generator (r numbers the accepted requests).
ChatMessage(r, chat_id, message) ==
    /\ loop = 0
    /\ r = posts + 1
    /\ IF ~Known(store, chat_id)
       THEN /\ last' = Response("message", StatusBadRequest, "Invalid chat ID", chat_id,
                                "", NoPath, <<>>)
            /\ UNCHANGED <<req, posts>>
       ELSE /\ r \in Req
            /\ req' = [req EXCEPT ![r] =
                          [IdleReq EXCEPT !.pc = "accepted", !.chat_id = chat_id,
                                          !.message = message]]
            /\ posts' = posts + 1
            /\ last' = Response("message", StatusOk, "", chat_id, "", NoPath, <<>>)
    /\ UNCHANGED <<used, index, store, loop, issued, ingested, ingests>>

\* GET /api/chat/history
ChatHistory(chat_id) ==
    /\ loop = 0
    /\ IF ~Known(store, chat_id)
       THEN last' = Response("history", StatusBadRequest, "Invalid chat ID", chat_id, "",
                             NoPath, <<>>)
       ELSE LET history == store[chat_id].history
            IN  last' = Response("history", StatusOk, "", chat_id, "", NoPath,
                                 [i \in 1..Len(history) |-> Render(history[i])])
    /\ UNCHANGED <<used, index, store, req, loop, issued, ingested, posts, ingests>>

\* ------------------------------------------------ the response stream
\* Variant of CanEnter: one request at a time on a session.
CanEnterExclusive(r) ==
    /\ loop = 0
    /\ req[r].pc = "accepted"
    /\ \A q \in Req : req[q].pc \in {"running", "suspended"} => req[q].chat_id # req[r].chat_id

\* Request r may take the event loop: to start its generator.
CanEnter(r) == loop = 0 /\ req[r].pc = "accepted"

\* Request r may run its generator on: it holds the loop, or it is suspended
\* at a yield and the loop is free.
CanRun(r) ==
    \/ loop = r /\ req[r].pc = "running"
    \/ loop = 0 /\ req[r].pc = "suspended"

\* First step of the generator: rag_chain.stream starts, the history is
\* loaded, the question is contextualized and the retriever is queried.
StreamBegin(r, docs) ==
    LET chat_id == req[r].chat_id
    IN  /\ CanEnter(r)
        /\ IF "rag_chain" \in DOMAIN store[chat_id]
           THEN /\ docs \in SearchResults(index, store[chat_id].rag_chain)
                /\ store' = GetSessionHistoryStore(store, chat_id)
                /\ req' = [req EXCEPT ![r].pc = "running",
                                      ![r].ctx = GetSessionHistory(store, chat_id),
                                      ![r].docs = docs]
                /\ loop' = r
           ELSE /\ docs = {}
                /\ req' = [req EXCEPT ![r].pc = "failed"]
                /\ UNCHANGED <<store, loop>>
        /\ UNCHANGED <<used, index, last, issued, ingested, posts, ingests>>

\* The increments the pipeline can yield next: the context first, then
\* partial answers.
NextChunks(r, pieces) ==
    IF req[r].n = 0 THEN {ContextChunk(req[r].docs)} ELSE {AnswerChunk(s) : s \in pieces}

\* One iteration of `for chunk in rag_chain.stream(...)`.
StreamChunk(r, chunk) ==
    LET out == Yielded(chunk)
        piece == IF "answer" \in DOMAIN chunk THEN chunk.answer ELSE <<>>
    IN  /\ CanRun(r)
        /\ req[r].n < MaxIncr
        /\ req' = [req EXCEPT ![r].n = @ + 1,
                              ![r].answer = @ \o piece,
                              ![r].frags = @ \o out,
                              ![r].pc = IF out = <<>> THEN "running" ELSE "suspended"]
        /\ loop' = IF out = <<>> THEN r ELSE 0
        /\ UNCHANGED <<used, index, store, last, issued, ingested, posts, ingests>>

\* rag_chain.stream is exhausted: the invocation ends and the exchange is
\* added to the session's history.
StreamEnd(r) ==
    LET chat_id == req[r].chat_id
    IN  /\ CanRun(r)
        /\ req[r].n >= 2
        /\ store' = WithHistory(store, chat_id,
                        ExitHistory(store[chat_id].history, req[r].message, req[r].answer))
        /\ req' = [req EXCEPT ![r].pc = "done", ![r].docs = {}, ![r].n = 0]
        /\ loop' = 0
        /\ UNCHANGED <<used, index, last, issued, ingested, posts, ingests>>

\* rag_chain.stream raises (retrieval, model or transport failure): the
\* generator re-raises, the stream is cut, nothing is added to the history.
\* A request that is over keeps what the client and the history hold of it.
StreamError(r) ==
    LET chat_id == req[r].chat_id
    IN  /\ CanRun(r)
        /\ store' = WithHistory(store, chat_id,
                        ErrorHistory(store[chat_id].history, req[r].message))
        /\ req' = [req EXCEPT ![r] = [IdleReq EXCEPT !.pc = "failed", !.chat_id = chat_id,
                                                     !.message = req[r].message,
                                                     !.frags = req[r].frags]]
        /\ loop' = 0
        /\ UNCHANGED <<used, index, last, issued, ingested, posts, ingests>>

\* --------------------------------------------------------------- Next
\* What the loader and the index write can do with a file: the loader
\* raises; the document is loaded and written; or the write fails after fewer
\* than all of its chunks.
Outcome(load_ok, pages, write_ok, written) ==
    [load_ok |-> load_ok, pages |-> pages, write_ok |-> write_ok, written |-> written]
Readable(docs) == {Outcome(TRUE, pages, TRUE, 0) : pages \in docs}
Outcomes ==
    {Outcome(FALSE, <<0>>, TRUE, 0)}
        \cup Readable(Docs)
        \cup {Outcome(TRUE, pages, FALSE, written) :
                  pages \in Docs, written \in 0..(MaxChunksOfDoc - 1)}

\* POST /api/documents/process with the file paths and outcomes given.
Ingest(paths, outcomes) ==
    \E file_path \in paths, o \in outcomes :
        ProcessDocument(Uuid4(used), file_path, o.load_ok, o.pages, o.write_ok, o.written)

Start(assets) == \E asset_id \in assets, setup_ok \in BOOLEAN :
                    StartChat(Uuid4(used), asset_id, setup_ok)

History(ids) == \E chat_id \in ids : ChatHistory(chat_id)

Message(ids, messages) == \E r \in 1..(MaxPosts + 1), chat_id \in ids, message \in messages :
                            ChatMessage(r, chat_id, message)

Stream(pieces) ==
    \/ \E r \in Req, docs \in SUBSET DOMAIN index : StreamBegin(r, docs)
    \/ \E r \in Req : \E chunk \in NextChunks(r, pieces) : StreamChunk(r, chunk)
    \/ \E r \in Req : StreamEnd(r)
    \/ \E r \in Req : StreamError(r)

\* The conversation facility, over the index of a first start (empty).
Next ==
    \/ Start({"u1", "bogus"})
    \/ History(ChatIds)
    \/ Message(ChatIds, Messages)
    \/ Stream(Pieces)

Spec == Init /\ [][Next]_vars

\* The ingestion facility with every path, loader outcome and write outcome.
NextIngest == Ingest(Paths, Outcomes)

SpecIngest == Init /\ [][NextIngest]_vars

\* Retrieval: sessions over an index filled by ingestions of readable text
\* files of one and of several chunks, one question, one answer piece.
NextRetrieval ==
    \/ Ingest({<<"a", ".", "txt">>}, Readable({<<1>>, <<2 * ChunkSize>>}))
    \/ Start({"u1", "u2"})
    \/ Message(UUIDs, {<<"q">>})
    \/ Stream({<<"a", "e_acute">>})

SpecRetrieval == Init /\ [][NextRetrieval]_vars

\* ============================================================ claims
IsPrefix(s, t) == Len(s) <= Len(t) /\ SubSeq(t, 1, Len(s)) = s

InFlight(r) == req[r].pc \in {"running", "suspended"}
Completes(r) == InFlight(r) /\ req'[r].pc = "done"
Fails(r) == InFlight(r) /\ req'[r].pc = "failed"

\* C1: postMessage and getHistory accept a chat id if and only if start_chat
\* returned it earlier: the ids the handlers know are exactly the ids returned
\* so far (none is ever removed), a request with such an id is answered 200,
\* and one with any other string is answered 400 'Invalid chat ID'.
C1_AcceptedIffReturned ==
    /\ \A c \in ClientIds : Known(store, c) <=> c \in issued
    /\ last.op \in {"message", "history"} =>
          /\ last.chat_id \in issued => last.status = 200
          /\ last.chat_id \notin issued =>
                last.status = 400 /\ last.detail = "Invalid chat ID"

\* C1 witness: a history request on the first of two returned ids is accepted
\* after an exchange was recorded.
C1_Witness ==
    /\ Cardinality(issued) = 2
    /\ last.op = "history" /\ last.status = 200 /\ Len(last.body) = 2
    /\ \E c \in issued : c # last.chat_id /\ store[c].history = <<>>

\* C2: when a postMessage(sessionId, m) completes with full answer a, the
\* session history becomes the history before that step followed by exactly
\* the human turn with content m and then the assistant turn with content a;
\* no step that is not such a completion changes any turn of any history.
C2_TwoTurnsAppended ==
    [][/\ \A r \in Req : Completes(r) =>
              store'[req[r].chat_id].history =
                  store[req[r].chat_id].history
                      \o <<[type |-> "human", content |-> req[r].message],
                           [type |-> "ai", content |-> req[r].answer]>>
       /\ \A c \in DOMAIN store :
              store'[c].history # store[c].history =>
                  \E r \in Req : Completes(r) /\ req[r].chat_id = c]_vars

\* C2 witness: a message has completed on a session whose prior history was
\* not empty, and the history holds the two exchanges.
C2_Witness ==
    \E r \in Req :
        /\ req[r].pc = "done"
        /\ Len(req[r].ctx) = 2
        /\ req[r].answer # <<>>
        /\ Len(store[req[r].chat_id].history) = 4

\* C3: the chunks retrieved for a message of a session bound to asset A are at
\* most 2 and each is tagged asset = A, whatever else the index holds.
C3_RetrievalScoped ==
    \A r \in Req : InFlight(r) =>
        /\ Cardinality(req[r].docs) <= 2
        /\ \A d \in req[r].docs :
              d \in DOMAIN index /\ index[d].asset = store[req[r].chat_id].asset_id

\* C3 witness: 2 chunks were retrieved for a session whose asset has 3 chunks
\* in an index that also holds chunks of another asset.
C3_Witness ==
    \E r \in Req :
        /\ InFlight(r)
        /\ Cardinality(req[r].docs) = 2
        /\ Cardinality({d \in DOMAIN index :
                           index[d].asset = store[req[r].chat_id].asset_id}) = 3
        /\ \E d \in DOMAIN index : index[d].asset # store[req[r].chat_id].asset_id

AllowList == {<<".", "txt">>, <<".", "pdf">>, <<".", "doc">>, <<".", "docx">>}

Processes == ingests' = ingests + 1

\* C4: process(filePath) with an extension outside the allow-list answers the
\* unsupported-type error, returns no asset id and leaves the index as it was.
C4_UnsupportedNoWrite ==
    [][(Processes /\ SplitExt(last'.path) \notin AllowList) =>
          /\ last'.op = "process"
          /\ last'.status = 400
          /\ last'.detail = "Unsupported file type"
          /\ last'.asset_id = ""
          /\ index' = index
          /\ ingested' = ingested]_vars

\* C4 witness: a path without a supported extension was refused while the
\* index held chunks.
C4_Witness ==
    /\ last.op = "process"
    /\ last.detail = "Unsupported file type"
    /\ SplitExt(last.path) \notin AllowList
    /\ DOMAIN index # {}

ChunksOf(a) == {id \in DOMAIN index : index[id].asset = a}

\* C5: for every asset id returned by a successful process, the chunks tagged
\* with it are exactly {assetId}_0 .. {assetId}_(n-1) for the n chunks of the
\* document, n >= 1 when the document has text, and they stay so whatever is
\* ingested later (no chunk id of another asset collides with them); the id
\* returned was not returned before.
C5_ChunkIds ==
    /\ \A a \in DOMAIN ingested :
          /\ ChunksOf(a) = {a \o "_" \o ToString(i) : i \in 0..(ingested[a].n - 1)}
          /\ Cardinality(ChunksOf(a)) = ingested[a].n
          /\ ingested[a].text > 0 => ingested[a].n >= 1
          /\ \A id \in ChunksOf(a) : LoaderFor(SplitExt(index[id].source)) # "none"
    /\ (last.op = "process" /\ last.status = 200) => last.asset_id \in DOMAIN ingested

\* C5 witness: two documents were ingested, one of several chunks.
C5_Witness ==
    \E a, b \in DOMAIN ingested :
        /\ a # b
        /\ ingested[a].n >= 3
        /\ ingested[b].n >= 1

\* The exchange of request r is recorded in the history of its session.
Recorded(r) ==
    LET h == store[req[r].chat_id].history
    IN  \E i \in 1..(Len(h) - 1) :
            /\ h[i] = [type |-> "human", content |-> req[r].message]
            /\ h[i + 1] = [type |-> "ai", content |-> req[r].answer]

FragmentsOfAnswer(r) ==
    /\ \A i \in 1..Len(req[r].frags) : req[r].frags[i] # <<>>
    /\ Flatten(req[r].frags) = Encode(req[r].answer)
    /\ Recorded(r)

\* C6 as stated: every completed postMessage streamed one or more fragments,
\* each non-empty, whose concatenation is the (UTF-8 encoded) answer recorded
\* in the history for that message.
C6_OneOrMoreFragments ==
    \A r \in Req : req[r].pc = "done" =>
        Len(req[r].frags) >= 1 /\ FragmentsOfAnswer(r)

\* C6 amended: every completed postMessage streamed a sequence of fragments,
\* each non-empty and in pipeline order, whose concatenation is the (UTF-8
\* encoded) answer recorded in the history for that message; there is at least
\* one fragment exactly when that answer is not empty; and an increment
\* without an answer field or with an empty one emits nothing.
C6_FragmentsConcatenate ==
    /\ [](\A r \in Req : req[r].pc = "done" =>
              /\ FragmentsOfAnswer(r)
              /\ Len(req[r].frags) >= 1 <=> req[r].answer # <<>>)
    /\ [][\A r \in Req :
              (InFlight(r) /\ req'[r].n = req[r].n + 1) =>
                  /\ IsPrefix(req[r].frags, req'[r].frags)
                  /\ IsPrefix(req[r].answer, req'[r].answer)
                  /\ req'[r].answer = req[r].answer => req'[r].frags = req[r].frags
                  /\ req'[r].answer # req[r].answer =>
                        Len(req'[r].frags) = Len(req[r].frags) + 1]_vars

\* C6 witness: a message completed after two fragments were streamed.
C6_Witness ==
    \E r \in Req : req[r].pc = "done" /\ Len(req[r].frags) = 2 /\ Recorded(r)

\* C7 as stated: an unknown chat id and an unsupported extension are answered
\* with a 4xx status; a loader failure, an index write failure and a pipeline
\* setup failure are answered with a 5xx status.
C7_ErrorClasses ==
    /\ last.detail \in {"Invalid chat ID", "Unsupported file type"} =>
          last.status >= 400 /\ last.status < 500
    /\ last.detail \in {"loader error", "index error", "Failed to start chat"} =>
          last.status >= 500 /\ last.status < 600

Unanswered(h) == h # <<>> /\ h[Len(h)].type = "human"

\* C8 as stated: the history of the session of a postMessage that failed
\* mid-stream ends with its human message, unanswered.
C8_FailureLeavesHumanTurn ==
    \A r \in Req : req[r].pc = "failed" =>
        LET h == store[req[r].chat_id].history
        IN  Unanswered(h) /\ h[Len(h)].content = req[r].message

\* C8 amended: a postMessage whose pipeline fails mid-stream (after zero or
\* more fragments) leaves every session history as it was: neither the human
\* message nor an assistant turn is recorded, and no history ever ends with an
\* unanswered human turn (the turns are recorded in human/assistant pairs).
C8_FailureLeavesHistory ==
    /\ [](\A c \in DOMAIN store :
              LET h == store[c].history
              IN  /\ ~Unanswered(h)
                  /\ \A i \in 1..Len(h) :
                        h[i].type = (IF i % 2 = 1 THEN "human" ELSE "ai"))
    /\ [][\A r \in Req : Fails(r) => store' = store]_vars

\* C8 witness: a postMessage failed after a fragment was streamed, on a
\* session that already held an exchange.
C8_Witness ==
    \E r \in Req :
        /\ req[r].pc = "failed"
        /\ Len(req[r].frags) >= 1
        /\ Len(store[req[r].chat_id].history) = 2

\* C9: postMessage requests on one session are not mutually excluded: while a
\* request on the session is suspended in its stream, another accepted request
\* on that session can start its pipeline; a pipeline reads the history at its
\* start as its context and keeps that context when another request
\* completes, so two overlapping requests can both work from the same prior
\* history (C9_Witness).
C9_NoMutualExclusion ==
    /\ [](\A p, q \in Req :
              (/\ req[p].pc = "accepted"
               /\ req[q].pc = "suspended"
               /\ req[q].chat_id = req[p].chat_id
               /\ loop = 0)
                  => ENABLED (\E docs \in SUBSET DOMAIN index : StreamBegin(p, docs)))
    /\ [][\A p \in Req :
              /\ (req[p].pc = "accepted" /\ req'[p].pc = "running") =>
                    req'[p].ctx = store[req[p].chat_id].history
              /\ (InFlight(p) /\ req'[p].pc # "failed") => req'[p].ctx = req[p].ctx]_vars

\* C9 witness: two requests on one session read the same prior history and
\* both completed: the history holds both exchanges, and the answer recorded
\* last was generated from a context without the other exchange.
C9_Witness ==
    \E p, q \in Req :
        /\ p # q
        /\ req[p].pc = "done" /\ req[q].pc = "done"
        /\ req[p].chat_id = req[q].chat_id
        /\ req[p].ctx = req[q].ctx
        /\ Len(store[req[p].chat_id].history) = Len(req[p].ctx) + 4

\* C10: a step of a postMessage on session Y changes at most the history of
\* Y; no step changes the asset id or the pipeline bound to a session or
\* removes a session id, and only a successful start adds one; getHistory and
\* a rejected postMessage leave the store and the index as they were.
C10_SessionsIsolated ==
    [][/\ \A c \in DOMAIN store :
              /\ c \in DOMAIN store'
              /\ store'[c].asset_id = store[c].asset_id
              /\ store'[c].rag_chain = store[c].rag_chain
       /\ DOMAIN store' # DOMAIN store => (last'.op = "start" /\ last'.status = 200)
       /\ \A r \in Req : req'[r] # req[r] =>
              /\ DOMAIN store' = DOMAIN store
              /\ \A c \in DOMAIN store : c # req'[r].chat_id => store'[c] = store[c]
       /\ (last' # last /\ last'.op = "history") => (store' = store /\ index' = index)
       /\ (last' # last /\ last'.op = "message" /\ last'.status = 400) =>
              (store' = store /\ index' = index /\ req' = req)]_vars

\* C10 witness: an exchange was recorded on one session while another
\* session, bound to another asset id, still has an empty history.
C10_Witness ==
    \E r \in Req : \E c \in DOMAIN store :
        /\ req[r].pc = "done"
        /\ c # req[r].chat_id
        /\ Len(store[req[r].chat_id].history) = 2
        /\ store[c].history = <<>>
        /\ store[c].asset_id # store[req[r].chat_id].asset_id

\* The fields of a complete session record, as start_chat stores it.
SessionFields == {"asset_id", "history", "rag_chain"}

\* C11: in every reachable state every entry of the session store is a
\* complete record holding asset_id, history and rag_chain, and every request
\* chat_message accepted names a key of the store; so when the pipeline
\* starts and calls get_session_history, the lookup finds the session, the
\* lazy-create branch is not taken (the store is left as it was) and the
\* pipeline of the record is there to run.
C11_StoreEntriesComplete ==
    /\ [](/\ \A c \in DOMAIN store : DOMAIN store[c] = SessionFields
          /\ \A r \in Req : req[r].pc # "idle" => Known(store, req[r].chat_id))
    /\ [][\A r \in Req :
              (req[r].pc = "accepted" /\ req'[r].pc # "accepted") =>
                  /\ GetSessionHistoryStore(store, req[r].chat_id) = store
                  /\ store' = store
                  /\ req'[r].pc = "running"]_vars

\* C11 witness: the pipeline ran to its end on a session, so
\* get_session_history was called for it, and afterwards a message for an id
\* that is not a key of the store was rejected; the store holds two sessions.
C11_Witness ==
    /\ \E r \in Req : req[r].pc = "done" /\ Len(store[req[r].chat_id].history) >= 2
    /\ Cardinality(DOMAIN store) = 2
    /\ last.op = "message" /\ last.status = 400 /\ last.chat_id \notin DOMAIN store

====
